---- MODULE Spec2Model ----
(***************************************************************************)
(* Heartbeat liveness aggregate of timescaledb-toolkit                     *)
(* (extension/src/heartbeat_agg.rs): the transition state that absorbs     *)
(* heartbeats in batches, the interval union, finalization, rollup and the *)
(* queries over a finalized aggregate.                                     *)
(*                                                                         *)
(* Times are small integers standing for i64 milliseconds; all values stay *)
(* far from the i64 limits, so no arithmetic wraps.  A live interval is    *)
(* the pair <<start, end>>.  An Option is the value itself or None.        *)
(***************************************************************************)
EXTENDS Integers, Sequences, FiniteSets, TLC

\* ------------------------------------------------------------------ bounds

\* Length of the observation window of the aggregate under test.
WinLen == 4
\* Largest liveness length per heartbeat.
MaxL == 2
\* Largest buffer cap explored (the source fixes BUFFER_SIZE = 1000; the
\* model explores every cap in 1..MaxCap).
MaxCap == 2
\* Largest number of heartbeats held by the operand of a direct combine.
MaxOther == 1
\* Length of the window of the state driven through its methods.
ApiLen == 3

\* The window of the aggregate under test is [WinStart, WinStart + WinLen);
\* the times offered to it lie in, before and after that window.
WinStart == 1
Times == (WinStart - 1) .. (WinStart + WinLen)
Lens == 1 .. MaxL
Caps == 1 .. MaxCap

\* ----------------------------------------------------------------- helpers

None == [none |-> TRUE]

Last(s) == s[Len(s)]
Front(s) == SubSeq(s, 1, Len(s) - 1)
Min(a, b) == IF a < b THEN a ELSE b

\* All sequences over S of length at most n.
SeqsUpTo(S, n) == UNION {[1 .. k -> S] : k \in 0 .. n}

\* ---------------------------------------------------- HeartbeatTransState

\* buffer.sort_unstable(): the ascending arrangement of the buffer.
RECURSIVE SortInsert(_, _)
SortInsert(sorted, x) ==
    IF sorted = <<>> THEN <<x>>
    ELSE IF x <= Head(sorted) THEN <<x>> \o sorted
    ELSE <<Head(sorted)>> \o SortInsert(Tail(sorted), x)

RECURSIVE SortUnstable(_)
SortUnstable(buffer) ==
    IF buffer = <<>> THEN <<>>
    ELSE SortInsert(SortUnstable(Tail(buffer)), Head(buffer))

\* The for loop of process_batch with a heartbeat at the bound left out of
\* the run.
RECURSIVE SweepStrict(_, _, _, _, _)
SweepStrict(sorted, i, start, bound, interval_len) ==
    IF i > Len(sorted) THEN << <<start, bound>> >>
    ELSE IF sorted[i] < bound
         THEN SweepStrict(sorted, i + 1, start, sorted[i] + interval_len, interval_len)
         ELSE << <<start, bound>> >>
              \o SweepStrict(sorted, i + 1, sorted[i], sorted[i] + interval_len,
                             interval_len)

\* The for loop of process_batch over the sorted buffer from position i on,
\* with the run in progress (start, bound); yields new_intervals.
RECURSIVE Sweep(_, _, _, _, _)
Sweep(sorted, i, start, bound, interval_len) ==
    IF i > Len(sorted) THEN << <<start, bound>> >>
    ELSE IF sorted[i] <= bound
         THEN Sweep(sorted, i + 1, start, sorted[i] + interval_len, interval_len)
         ELSE << <<start, bound>> >>
              \o Sweep(sorted, i + 1, sorted[i], sorted[i] + interval_len, interval_len)

\* new_intervals of process_batch for a non-empty buffer.
NewIntervals(buffer, interval_len) ==
    LET sorted == SortUnstable(buffer)
    IN Sweep(sorted, 1, sorted[1], sorted[1] + interval_len, interval_len)

\* The ordered path without its overlap test: the first new interval is
\* always pushed.
OrderedPathAlwaysPush(liveness, new_intervals) == liveness \o new_intervals

\* combine_intervals, "Optimized path for ordered inputs".
OrderedPath(liveness, new_intervals) ==
    LET last == Last(liveness)
        first_new == Head(new_intervals)
    IN (IF last[2] >= first_new[1]
        THEN Append(Front(liveness), <<last[1], first_new[2]>>)
        ELSE Append(liveness, first_new))
       \o Tail(new_intervals)

\* The inner while of the two-iterator merge: control and test are what the
\* two peekable iterators have left, bound the bound in progress.
RECURSIVE Absorb(_, _, _)
Absorb(control, test, bound) ==
    IF test # <<>> /\ Head(test)[1] <= bound
    THEN IF Head(test)[2] > bound
         THEN Absorb(Tail(test), control, Head(test)[2])
         ELSE Absorb(control, Tail(test), bound)
    ELSE [control |-> control, test |-> test, bound |-> bound]

\* The outer while let of the two-iterator merge; out is self.liveness so far.
RECURSIVE MergeLoop(_, _, _)
MergeLoop(control, test, out) ==
    IF control # <<>>
    THEN IF test # <<>>
         THEN LET keep == Head(control)[1] < Head(test)[1]
                  c == IF keep THEN control ELSE test
                  t == IF keep THEN test ELSE control
                  r == Absorb(Tail(c), t, Head(c)[2])
              IN MergeLoop(r.control, r.test, Append(out, <<Head(c)[1], r.bound>>))
         ELSE MergeLoop(Tail(control), test, Append(out, Head(control)))
    ELSE IF test # <<>>
         THEN MergeLoop(control, Tail(test), Append(out, Head(test)))
         ELSE out

\* combine_intervals unwraps the last of self.liveness and the first of
\* new_intervals: it panics when either is empty.
CombineIntervalsPanics(liveness, new_intervals) ==
    liveness = <<>> \/ new_intervals = <<>>

\* Which path combine_intervals takes.
TakesOrderedPath(liveness, new_intervals) ==
    Last(liveness)[1] < Head(new_intervals)[1]

\* combine_intervals on non-empty operands: the new self.liveness.
CombineIntervals(liveness, new_intervals) ==
    IF TakesOrderedPath(liveness, new_intervals)
    THEN OrderedPath(liveness, new_intervals)
    ELSE MergeLoop(liveness, new_intervals, <<>>)

\* HeartbeatTransState::new
New(start, end, interval) ==
    [start |-> start, end |-> end, interval_len |-> interval,
     buffer |-> <<>>, liveness |-> <<>>]

\* process_batch that leaves the buffer as it is.
ProcessBatchKeep(s) ==
    IF s.buffer = <<>> THEN s
    ELSE LET new_intervals == NewIntervals(s.buffer, s.interval_len)
         IN [s EXCEPT !.liveness = IF s.liveness = <<>> THEN new_intervals
                                   ELSE CombineIntervals(s.liveness, new_intervals)]

\* HeartbeatTransState::process_batch
ProcessBatch(s) ==
    IF s.buffer = <<>> THEN s
    ELSE LET new_intervals == NewIntervals(s.buffer, s.interval_len)
         IN [s EXCEPT !.buffer = <<>>,
                      !.liveness = IF s.liveness = <<>> THEN new_intervals
                                   ELSE CombineIntervals(s.liveness, new_intervals)]

\* The assertion of insert with the end of the window let in.
InsertAssertClosed(s, time) == time >= s.start /\ time <= s.end

\* The assertion of insert.
InsertAssert(s, time) == time >= s.start /\ time < s.end

\* insert that flushes only a buffer already over the cap.
InsertFlushLate(s, time, cap) ==
    LET flushed == IF Len(s.buffer) > cap THEN ProcessBatch(s) ELSE s
    IN [flushed EXCEPT !.buffer = Append(@, time)]

\* HeartbeatTransState::insert past its assertion, with buffer cap cap.
Insert(s, time, cap) ==
    LET flushed == IF Len(s.buffer) >= cap THEN ProcessBatch(s) ELSE s
    IN [flushed EXCEPT !.buffer = Append(@, time)]

\* The assertion of combine with every liveness length let in.
CombineAssertAny(s, other) == TRUE

\* The assertion of combine.
CombineAssert(s, other) == s.interval_len = other.interval_len

\* combine past its assertion, up to the call of combine_intervals: both
\* buffers are flushed, then combine_intervals may panic.
CombinePanics(s, other) ==
    CombineIntervalsPanics(ProcessBatch(s).liveness, ProcessBatch(other).liveness)

\* combine that takes over the window of the operand.
CombineTakeWindow(s, other) ==
    LET s1 == ProcessBatch(s)
        o1 == ProcessBatch(other)
    IN [s1 EXCEPT !.start = o1.start, !.end = o1.end,
                  !.liveness = CombineIntervals(s1.liveness, o1.liveness)]

\* HeartbeatTransState::combine when it completes.
Combine(s, other) ==
    LET s1 == ProcessBatch(s)
        o1 == ProcessBatch(other)
    IN [s1 EXCEPT !.liveness = CombineIntervals(s1.liveness, o1.liveness)]

\* ------------------------------------------------------------ HeartbeatAgg

\* impl From<HeartbeatAgg> for HeartbeatTransState
FromAgg(agg) ==
    [start |-> agg.start_time, end |-> agg.end_time,
     interval_len |-> agg.interval_len, buffer |-> <<>>,
     liveness |-> [i \in 1 .. Min(Len(agg.interval_starts), Len(agg.interval_ends))
                     |-> <<agg.interval_starts[i], agg.interval_ends[i]>>]]

\* The trim left out: the ends as they are.
TrimLastNever(ends, end) == ends

\* The trim without its comparison: the last end is always set to end.
TrimLastAlways(ends, end) ==
    IF ends # <<>> THEN [ends EXCEPT ![Len(ends)] = end] ELSE ends

\* "Trim last interval to end of aggregate's range"
TrimLast(ends, end) ==
    IF ends # <<>> /\ Last(ends) > end
    THEN [ends EXCEPT ![Len(ends)] = end]
    ELSE ends

\* The HeartbeatAgg heartbeat_final_inner builds from a state whose buffer
\* has been flushed.
Flatten(s) ==
    LET starts == [i \in 1 .. Len(s.liveness) |-> s.liveness[i][1]]
        ends == [i \in 1 .. Len(s.liveness) |-> s.liveness[i][2]]
    IN [start_time |-> s.start, end_time |-> s.end,
        interval_len |-> s.interval_len, num_intervals |-> Len(starts),
        interval_starts |-> starts, interval_ends |-> TrimLast(ends, s.end)]

\* heartbeat_final_inner: the Option<HeartbeatAgg> returned.
FinalInner(state) ==
    IF state = None THEN None ELSE Flatten(ProcessBatch(state))

\* The state heartbeat_trans_inner inserts into: the running one, or a new
\* one over [start, start + length) on the first call.
TransTarget(state, start, length, liveness_duration) ==
    IF state = None THEN New(start, start + length, liveness_duration) ELSE state

\* heartbeat_trans_inner past the assertion of insert.
TransInner(state, heartbeat, start, length, liveness_duration, cap) ==
    Insert(TransTarget(state, start, length, liveness_duration), heartbeat, cap)

\* heartbeat_rollup_trans_inner that keeps the running state, whatever the
\* incoming aggregate.
RollupTransInnerKeep(state, value) ==
    IF state = None /\ value # None THEN FromAgg(value) ELSE state

\* heartbeat_rollup_trans_inner when combine completes.
RollupTransInner(state, value) ==
    IF value = None THEN state
    ELSE IF state = None THEN FromAgg(value)
    ELSE Combine(state, FromAgg(value))

\* -------------------------------------------------------- input domains

\* The interval sequences over the points lo..hi that keep the invariants
\* of liveness: s < e within an interval, e < s' between neighbours.
RECURSIVE IntervalSeqs(_, _)
IntervalSeqs(lo, hi) ==
    {<<>>} \cup
    UNION {UNION {{<< <<s, e>> >> \o rest : rest \in IntervalSeqs(e + 1, hi)}
                  : e \in (s + 1) .. hi}
           : s \in lo .. hi}

\* A HeartbeatAgg with the given window, liveness length and intervals.
MkAgg(start, end, interval_len, ivs) ==
    [start_time |-> start, end_time |-> end, interval_len |-> interval_len,
     num_intervals |-> Len(ivs),
     interval_starts |-> [i \in 1 .. Len(ivs) |-> ivs[i][1]],
     interval_ends |-> [i \in 1 .. Len(ivs) |-> ivs[i][2]]]

\* Window starts of the aggregates fed to rollup: sub-windows that overlap.
AggStarts == {WinStart, WinStart + 2}

\* The aggregates that satisfy the Aggregate invariants, over windows of the
\* given length.
AggsOver(length) ==
    UNION {UNION {{MkAgg(w, w + length, l, ivs) : ivs \in IntervalSeqs(w, w + length)}
                  : w \in AggStarts}
           : l \in Lens}

ValidAggs == AggsOver(WinLen)

\* A state built by new and successive inserts of hbs.
RECURSIVE InsertAll(_, _, _)
InsertAll(s, hbs, cap) ==
    IF hbs = <<>> THEN s ELSE InsertAll(Insert(s, Head(hbs), cap), Tail(hbs), cap)

\* ------------------------------------------------------------------ state

VARIABLES
    state,    \* Option<Inner<HeartbeatTransState>> carried by the host
    cap,      \* the buffer cap (BUFFER_SIZE)
    agg,      \* Option<HeartbeatAgg> returned by final, None before
    seen,     \* history: the heartbeats inserted by heartbeat_trans so far
    op,       \* the last operation and whether it completed or panicked
    input,    \* the arguments drawn by a specification of a pure function
    output    \* what that function returned

vars == <<state, cap, agg, seen, op, input, output>>

\* No operation follows final or a panic.
Running == agg = None /\ op.result = "ok"

Done(name) == [name |-> name, result |-> "ok"]
Panic(name) == [name |-> name, result |-> "panic"]

\* heartbeat_trans: lazily creates the state, then inserts the heartbeat.
Trans(heartbeat, start, length, liveness_duration) ==
    /\ Running
    /\ LET s == TransTarget(state, start, length, liveness_duration)
       IN IF InsertAssert(s, heartbeat)
          THEN /\ state' = TransInner(state, heartbeat, start, length,
                                      liveness_duration, cap)
               /\ seen' = seen \cup {heartbeat}
               /\ op' = Done("insert")
          ELSE /\ state' = state
               /\ op' = Panic("insert")
               /\ UNCHANGED seen
    /\ UNCHANGED <<cap, agg, input, output>>

\* A direct call of insert on an existing state.
DoInsert(time) ==
    /\ Running
    /\ state # None
    /\ IF InsertAssert(state, time)
       THEN /\ state' = Insert(state, time, cap)
            /\ op' = Done("insert")
       ELSE /\ state' = state
            /\ op' = Panic("insert")
    /\ UNCHANGED <<cap, agg, seen, input, output>>

\* A direct call of process_batch.
DoProcessBatch ==
    /\ Running
    /\ state # None
    /\ state' = ProcessBatch(state)
    /\ op' = Done("process_batch")
    /\ UNCHANGED <<cap, agg, seen, input, output>>

\* A direct call of combine.
DoCombine(other) ==
    /\ Running
    /\ state # None
    /\ IF ~CombineAssert(state, other)
       THEN /\ state' = state
            /\ op' = Panic("combine")
       ELSE IF CombinePanics(state, other)
       THEN /\ state' = ProcessBatch(state)
            /\ op' = Panic("combine")
       ELSE /\ state' = Combine(state, other)
            /\ op' = Done("combine")
    /\ UNCHANGED <<cap, agg, seen, input, output>>

\* heartbeat_rollup_trans
RollupTrans(value) ==
    /\ Running
    /\ IF state # None /\ value # None /\ ~CombineAssert(state, FromAgg(value))
       THEN /\ state' = state
            /\ op' = Panic("rollup_trans")
       ELSE IF state # None /\ value # None /\ CombinePanics(state, FromAgg(value))
       THEN /\ state' = ProcessBatch(state)
            /\ op' = Panic("rollup_trans")
       ELSE /\ state' = RollupTransInner(state, value)
            /\ op' = Done("rollup_trans")
    /\ UNCHANGED <<cap, agg, seen, input, output>>

\* heartbeat_final: flushes the state in place and returns the aggregate.
Final ==
    /\ Running
    /\ state' = IF state = None THEN None ELSE ProcessBatch(state)
    /\ agg' = FinalInner(state)
    /\ op' = Done("final")
    /\ UNCHANGED <<cap, seen, input, output>>

\* ------------------------------------------- the heartbeat_agg aggregate
\* heartbeat_trans per row, then heartbeat_final; process_batch may be called
\* between inserts, as test_heartbeat_trans_state does.

Init ==
    /\ state = None
    /\ cap \in Caps
    /\ agg = None
    /\ seen = {}
    /\ op = Done("init")
    /\ input = None
    /\ output = None

\* The window and liveness arguments are read on the first call only.
Next ==
    \/ \E heartbeat \in Times :
          \E liveness_duration \in (IF state = None THEN Lens ELSE {state.interval_len}) :
             Trans(heartbeat, WinStart, WinLen, liveness_duration)
    \/ DoProcessBatch
    \/ state # None /\ Final

Spec == Init /\ [][Next]_vars

\* --------------------------------------------------- the rollup aggregate
\* heartbeat_rollup_trans per aggregate, then heartbeat_final.

InitRollup ==
    /\ state = None
    /\ cap = MaxCap
    /\ agg = None
    /\ seen = {}
    /\ op = Done("init")
    /\ input = None
    /\ output = None

NextRollup ==
    \/ \E value \in ValidAggs \cup {None} : RollupTrans(value)
    \/ Final

SpecRollup == InitRollup /\ [][NextRollup]_vars

\* ------------------------------------------------ the methods of the state
\* new, then insert, process_batch and combine in any order.  The operand of
\* combine is a state built by inserts, or one converted from an aggregate.

InitApi ==
    /\ \E interval_len \in Lens : state = New(WinStart, WinStart + ApiLen, interval_len)
    /\ cap \in Caps
    /\ agg = None
    /\ seen = {}
    /\ op = Done("new")
    /\ input = None
    /\ output = None

\* The operands of combine, by liveness length: states built by inserts, and
\* states converted from a valid aggregate.
Others ==
    [interval_len \in Lens |->
        {InsertAll(New(WinStart, WinStart + ApiLen, interval_len), hbs, MaxCap) :
            hbs \in SeqsUpTo(WinStart .. (WinStart + ApiLen - 1), MaxOther)}
        \cup {FromAgg(a) : a \in {v \in AggsOver(ApiLen) : v.interval_len = interval_len}}]

\* The times insert is called with: the window and a point beyond it on
\* either side.
InsertTimes == (WinStart - 1) .. (WinStart + ApiLen)

\* combine reads nothing of an operand whose liveness length differs, so one
\* such operand stands for all of them.
NextApi ==
    \/ \E time \in InsertTimes : DoInsert(time)
    \/ DoProcessBatch
    \/ \E interval_len \in Lens :
          /\ state # None
          /\ IF interval_len = state.interval_len
             THEN \E other \in Others[interval_len] : DoCombine(other)
             ELSE DoCombine(New(WinStart, WinStart + ApiLen, interval_len))

SpecApi == InitApi /\ [][NextApi]_vars

\* ------------------------------------------------- new with any arguments
\* new with a window and a liveness length of any sign, then insert and
\* process_batch.

\* A direct call of new: it builds the state from whatever it is given.
DoNew(start, end, interval) ==
    /\ Running
    /\ state = None
    /\ state' = New(start, end, interval)
    /\ op' = Done("new")
    /\ UNCHANGED <<cap, agg, seen, input, output>>

\* The ends new is called with: before, at and after the start.
NewEnds == (WinStart - 1) .. (WinStart + ApiLen)

\* The liveness lengths new is called with: negative, zero and positive.
NewLens == (0 - 1) .. MaxL

\* Largest liveness insert is still called on: with a liveness length that
\* is not positive the intervals no longer merge, and liveness grows with
\* every flush.
MaxLive == 2

NextNew ==
    \/ \E end \in NewEnds, interval \in NewLens : DoNew(WinStart, end, interval)
    \/ \E time \in InsertTimes :
          state # None /\ Len(state.liveness) <= MaxLive /\ DoInsert(time)
    \/ DoProcessBatch

SpecNew == Init /\ [][NextNew]_vars

\* ------------------------------------------------------- claim vocabulary

\* The point p lies in one of the intervals: s <= p < e.
Covered(ivs, p) == \E i \in 1 .. Len(ivs) : ivs[i][1] <= p /\ p < ivs[i][2]

\* The invariants of liveness: non-empty intervals, strictly separated.
LivenessOk(ivs) ==
    /\ \A i \in 1 .. Len(ivs) : ivs[i][1] < ivs[i][2]
    /\ \A i \in 1 .. (Len(ivs) - 1) : ivs[i][2] < ivs[i + 1][1]

\* The invariants of a finalized Aggregate.
AggOk(a) ==
    LET n == a.num_intervals
        S == a.interval_starts
        E == a.interval_ends
    IN /\ Len(S) = n /\ Len(E) = n
       /\ \A i \in 1 .. n : S[i] < E[i]
       /\ \A i \in 1 .. (n - 1) : E[i] < S[i + 1]
       /\ n > 0 => (S[1] >= a.start_time /\ E[n] <= a.end_time)

\* The window of the aggregate under test.
WinTimes == WinStart .. (WinStart + WinLen - 1)

\* The dummy values of the variables a specification does not use.
Unused ==
    /\ state = None
    /\ cap = MaxCap
    /\ agg = None
    /\ seen = {}
    /\ op = Done("init")

\* ------------------------------------------------ permutation of the inserts

\* Largest number of heartbeats in a drawn insertion sequence.
MaxBeats == 3

\* new, the inserts of hbs in order, then final.
AggOf(hbs, interval_len, b) ==
    FinalInner(InsertAll(New(WinStart, WinStart + WinLen, interval_len), hbs, b))

InitPerm ==
    /\ Unused
    /\ \E hbs \in SeqsUpTo(WinTimes, MaxBeats), interval_len \in Lens, b \in Caps :
          \E perm \in Permutations(1 .. Len(hbs)) :
             input = [hbs |-> hbs, perm |-> perm, interval_len |-> interval_len,
                      cap |-> b]
    /\ output = None

RunPerm ==
    /\ output = None
    /\ output' = [first |-> AggOf(input.hbs, input.interval_len, input.cap),
                  second |-> AggOf([i \in 1 .. Len(input.hbs) |-> input.hbs[input.perm[i]]],
                                   input.interval_len, input.cap)]
    /\ UNCHANGED <<state, cap, agg, seen, op, input>>

SpecPerm == InitPerm /\ [][RunPerm]_vars

\* C1: for a fixed window, liveness length and buffer cap, inserting the same
\* heartbeats in any permutation and then finalizing yields the same
\* Aggregate.
C1_PermutationInvariant ==
    output # None => output.first = output.second

\* ------------------------------------------------- batching of the inserts

\* new, then the inserts of hbs from position i on, with a direct call of
\* process_batch after each position in flush.
RECURSIVE InsertFlush(_, _, _, _, _)
InsertFlush(s, hbs, i, flush, b) ==
    IF i > Len(hbs) THEN s
    ELSE LET s1 == Insert(s, hbs[i], b)
             s2 == IF i \in flush THEN ProcessBatch(s1) ELSE s1
         IN InsertFlush(s2, hbs, i + 1, flush, b)

InitBatch ==
    /\ Unused
    /\ \E hbs \in SeqsUpTo(WinTimes, MaxBeats), interval_len \in Lens,
          b1 \in Caps, b2 \in Caps :
          \E flush \in SUBSET (1 .. Len(hbs)) :
             input = [hbs |-> hbs, interval_len |-> interval_len,
                      cap1 |-> b1, cap2 |-> b2, flush |-> flush]
    /\ output = None

RunBatch ==
    /\ output = None
    /\ output' =
          [first |-> FinalInner(InsertFlush(
                        New(WinStart, WinStart + WinLen, input.interval_len),
                        input.hbs, 1, input.flush, input.cap1)),
           second |-> AggOf(input.hbs, input.interval_len, input.cap2)]
    /\ UNCHANGED <<state, cap, agg, seen, op, input>>

SpecBatch == InitBatch /\ [][RunBatch]_vars

\* C2: for heartbeats inserted in a fixed order the finalized Aggregate is
\* the same for every buffer cap, and the same wherever extra process_batch
\* calls are interleaved between the inserts.
C2_BatchingTransparent ==
    output # None => output.first = output.second

\* ------------------------------------------------------------ containment

\* C3: after inserts and process_batch calls ending with process_batch, every
\* heartbeat ever inserted lies in an interval of liveness.
C3_Containment ==
    (state # None /\ op = Done("process_batch"))
        => \A h \in seen : Covered(state.liveness, h)

\* ------------------------------------------------- union of two sequences

\* Both operands are drawn non-empty: combine_intervals unwraps the last of
\* one and the first of the other, and process_batch calls it only so.
\* The points the drawn interval sequences range over.
Points == 0 .. (WinStart + WinLen)

InitUnion ==
    /\ Unused
    /\ \E a \in IntervalSeqs(0, WinStart + WinLen) \ {<<>>},
          b \in IntervalSeqs(0, WinStart + WinLen) \ {<<>>} :
          input = [a |-> a, b |-> b]
    /\ output = None

RunUnion ==
    /\ output = None
    /\ output' = [liveness |-> CombineIntervals(input.a, input.b),
                  ordered |-> TakesOrderedPath(input.a, input.b)]
    /\ UNCHANGED <<state, cap, agg, seen, op, input>>

SpecUnion == InitUnion /\ [][RunUnion]_vars

\* C4: combine_intervals of two valid interval sequences yields their set
\* union, coalesced, on the ordered path and on the two-iterator path alike.
C4_UnionIsSetUnion ==
    output # None =>
        /\ LivenessOk(output.liveness)
        /\ \A p \in Points :
              Covered(output.liveness, p) <=> (Covered(input.a, p) \/ Covered(input.b, p))

\* ------------------------------------------------- invariants of liveness

\* C5: after new, insert, process_batch and combine (equal L, non-empty valid
\* operands) liveness has non-empty intervals, strictly increasing and
\* strictly separated.
C5_LivenessSorted ==
    state # None => LivenessOk(state.liveness)

\* A combine has completed and left several intervals behind.
C5_Witness ==
    /\ state # None
    /\ op = Done("combine")
    /\ Len(state.liveness) >= 2

\* --------------------------------------------------- combine in both orders

InitCombine ==
    /\ Unused
    /\ \E x \in SeqsUpTo(WinTimes, MaxBeats) \ {<<>>},
          y \in SeqsUpTo(WinTimes, MaxBeats) \ {<<>>},
          interval_len \in Lens, b \in Caps :
          input = [x |-> x, y |-> y, interval_len |-> interval_len, cap |-> b]
    /\ output = None

RunCombine ==
    /\ output = None
    /\ LET X == InsertAll(New(WinStart, WinStart + WinLen, input.interval_len),
                          input.x, input.cap)
           Y == InsertAll(New(WinStart, WinStart + WinLen, input.interval_len),
                          input.y, input.cap)
       IN output' = [xy |-> Combine(X, Y).liveness, yx |-> Combine(Y, X).liveness]
    /\ UNCHANGED <<state, cap, agg, seen, op, input>>

SpecCombine == InitCombine /\ [][RunCombine]_vars

\* C6: combine is commutative on liveness: for states X and Y with equal L
\* built by inserts on the same window, X.combine(Y) and Y.combine(X) leave
\* the same liveness (as they must if it depends only on the combined
\* multiset of heartbeats, which is the same in both orders).
C6_CombineCommutes ==
    output # None => output.xy = output.yx

\* ------------------------------------------------------ rollup, regrouped

\* The elements of a set of times in ascending order.
RECURSIVE Ascending(_)
Ascending(S) ==
    IF S = {} THEN <<>>
    ELSE LET m == CHOOSE x \in S : \A y \in S : x <= y
         IN <<m>> \o Ascending(S \ {m})

\* rollup(a, b): heartbeat_rollup_trans over the two aggregates, then
\* heartbeat_final.
Rollup2(a, b) ==
    FinalInner(RollupTransInner(RollupTransInner(None, a), b))

InitAssoc ==
    /\ Unused
    /\ \E a \in (SUBSET WinTimes) \ {{}}, b \in (SUBSET WinTimes) \ {{}},
          c \in (SUBSET WinTimes) \ {{}}, interval_len \in Lens, b0 \in Caps :
          input = [a |-> AggOf(Ascending(a), interval_len, b0),
                   b |-> AggOf(Ascending(b), interval_len, b0),
                   c |-> AggOf(Ascending(c), interval_len, b0)]
    /\ output = None

RunAssoc ==
    /\ output = None
    /\ output' = [left |-> Rollup2(Rollup2(input.a, input.b), input.c),
                  right |-> Rollup2(input.a, Rollup2(input.b, input.c))]
    /\ UNCHANGED <<state, cap, agg, seen, op, input>>

SpecAssoc == InitAssoc /\ [][RunAssoc]_vars

\* C7: rollup is associative: for Aggregates A, B, C of the same L and window,
\* each produced by trans and final, rollup(rollup(A, B), C) and
\* rollup(A, rollup(B, C)) have the same S and E arrays.
C7_RollupAssociative ==
    output # None =>
        /\ output.left.interval_starts = output.right.interval_starts
        /\ output.left.interval_ends = output.right.interval_ends

\* ----------------------------------------------------------- finalization

\* C8: the Aggregate final returns for a state built by trans alone keeps
\* S[0] >= start, E[n-1] <= end, S[i] < E[i] and E[i] < S[i+1], and is the
\* flushed liveness with nothing changed but the last end, clamped to
\* min(e, end).
C8_FinalKeepsWindow ==
    agg # None =>
        LET n == agg.num_intervals
            S == agg.interval_starts
            E == agg.interval_ends
            lv == state.liveness
        IN /\ n = Len(lv) /\ Len(S) = n /\ Len(E) = n /\ n >= 1
           /\ agg.start_time = state.start /\ agg.end_time = state.end
           /\ agg.interval_len = state.interval_len
           /\ S[1] >= agg.start_time /\ E[n] <= agg.end_time
           /\ \A i \in 1 .. n : S[i] < E[i] /\ S[i] = lv[i][1]
           /\ \A i \in 1 .. (n - 1) : E[i] < S[i + 1] /\ E[i] = lv[i][2]
           /\ E[n] = Min(lv[n][2], state.end)

\* final has returned several intervals and clamped the last one.
C8_Witness ==
    /\ agg # None
    /\ agg.num_intervals >= 2
    /\ Last(state.liveness)[2] > state.end
    /\ Last(agg.interval_ends) = state.end

\* C9: the Aggregate final returns for a state built by rollup_trans over
\* valid Aggregates of equal L, whose windows may differ, satisfies the
\* Aggregate invariants within the window it reports.
C9_RollupFinalValid ==
    agg # None => AggOk(agg)

\* ---------------------------------------------- functions of an aggregate

\* Iterator::zip: pairs up to the shorter of the two sequences.
Zip(xs, ys) == [i \in 1 .. Min(Len(xs), Len(ys)) |-> <<xs[i], ys[i]>>]

\* live_ranges
LiveRanges(a) == Zip(a.interval_starts, a.interval_ends)

\* dead_ranges with the first point always prepended, stub or not.
FixFirstAlwaysInsert(starts, ends, start_time) ==
    [starts |-> <<start_time>> \o starts, ends |-> ends]

\* dead_ranges, the first point: the leading dead range is dropped when the
\* aggregate starts live, and opened at start_time otherwise.
FixFirst(starts, ends, start_time) ==
    IF ends[1] = start_time
    THEN [starts |-> starts, ends |-> Tail(ends)]
    ELSE [starts |-> <<start_time>> \o starts, ends |-> ends]

\* dead_ranges, the last point: the trailing dead range is dropped when the
\* aggregate ends live, and closed at end_time otherwise.
FixLast(starts, ends, end_time) ==
    IF Last(starts) = end_time
    THEN [starts |-> Front(starts), ends |-> ends]
    ELSE [starts |-> starts, ends |-> Append(ends, end_time)]

\* dead_ranges
DeadRanges(a) ==
    IF a.num_intervals = 0 THEN << <<a.start_time, a.end_time>> >>
    ELSE LET first == FixFirst(a.interval_ends, a.interval_starts, a.start_time)
             last == FixLast(first.starts, first.ends, a.end_time)
         IN Zip(last.starts, last.ends)

\* live_at with the end of an interval taken as live.
RECURSIVE LiveAtScanClosed(_, _, _)
LiveAtScanClosed(a, test, idx) ==
    IF idx > Len(a.interval_starts) THEN test <= Last(a.interval_ends)
    ELSE IF test < a.interval_starts[idx] THEN FALSE
    ELSE IF idx < Len(a.interval_starts) /\ test < a.interval_starts[idx + 1]
    THEN test <= a.interval_ends[idx]
    ELSE LiveAtScanClosed(a, test, idx + 1)

\* live_at, the scan of interval_starts from position idx on, peeking at the
\* next start.
RECURSIVE LiveAtScan(_, _, _)
LiveAtScan(a, test, idx) ==
    IF idx > Len(a.interval_starts) THEN test < Last(a.interval_ends)
    ELSE IF test < a.interval_starts[idx] THEN FALSE
    ELSE IF idx < Len(a.interval_starts) /\ test < a.interval_starts[idx + 1]
    THEN test < a.interval_ends[idx]
    ELSE LiveAtScan(a, test, idx + 1)

\* live_at
LiveAt(a, test) ==
    IF a.num_intervals = 0 THEN FALSE ELSE LiveAtScan(a, test, 1)

\* sum_live_intervals with the last interval left out.
RECURSIVE SumLiveIntervalsShort(_, _)
SumLiveIntervalsShort(a, i) ==
    IF i >= a.num_intervals THEN 0
    ELSE (a.interval_ends[i] - a.interval_starts[i]) + SumLiveIntervalsShort(a, i + 1)

\* sum_live_intervals, the for loop from interval i on.
RECURSIVE SumLiveIntervals(_, _)
SumLiveIntervals(a, i) ==
    IF i > a.num_intervals THEN 0
    ELSE (a.interval_ends[i] - a.interval_starts[i]) + SumLiveIntervals(a, i + 1)

\* duration_live
DurationLive(a) == SumLiveIntervals(a, 1)

\* duration_dead
DurationDead(a) == a.end_time - a.start_time - SumLiveIntervals(a, 1)

\* The timestamps live_at is asked about: the windows of ValidAggs and a
\* point beyond them on either side.
TestTimes == (WinStart - 1) .. (WinStart + 2 + WinLen + 1)

InitAgg ==
    /\ Unused
    /\ \E a \in ValidAggs : input = [agg |-> a]
    /\ output = None

\* live_ranges and dead_ranges of the aggregate.
RunRanges ==
    /\ output = None
    /\ output' = [fn |-> "ranges", live |-> LiveRanges(input.agg),
                  dead |-> DeadRanges(input.agg)]
    /\ UNCHANGED <<state, cap, agg, seen, op, input>>

\* live_at of the aggregate at a timestamp.
RunLiveAt(test) ==
    /\ output = None
    /\ output' = [fn |-> "live_at", test |-> test,
                  value |-> LiveAt(input.agg, test)]
    /\ UNCHANGED <<state, cap, agg, seen, op, input>>

\* An aggregate through heartbeat_rollup_trans with no running state, then
\* heartbeat_final.
RunRoundTrip ==
    /\ output = None
    /\ output' = [fn |-> "round_trip",
                  value |-> FinalInner(RollupTransInner(None, input.agg))]
    /\ UNCHANGED <<state, cap, agg, seen, op, input>>

\* duration_live and duration_dead of the aggregate.
RunDurations ==
    /\ output = None
    /\ output' = [fn |-> "durations", live |-> DurationLive(input.agg),
                  dead |-> DurationDead(input.agg)]
    /\ UNCHANGED <<state, cap, agg, seen, op, input>>

NextAgg ==
    \/ RunRoundTrip
    \/ RunRanges
    \/ RunDurations
    \/ \E test \in TestTimes : RunLiveAt(test)

SpecAgg == InitAgg /\ [][NextAgg]_vars

\* C10: an Aggregate that satisfies the Aggregate invariants, converted to a
\* TransState by rollup_trans and finalized with no further input, comes
\* back with the same start, end, L, S and E.
C10_RoundTrip ==
    (output # None /\ output.fn = "round_trip") => output.value = input.agg

\* The round trip of an aggregate with several intervals, the last of which
\* ends before the window does.
C10_Witness ==
    /\ output # None
    /\ output.fn = "round_trip"
    /\ input.agg.num_intervals >= 2
    /\ Last(input.agg.interval_ends) < input.agg.end_time

\* C11: for every valid Aggregate, dead_ranges and live_ranges together tile
\* [start, end]: every range lies in the window, every unit of the window is
\* in exactly one range, and dead_ranges is sorted with no zero-length or
\* negative-length range.
C11_RangesTile ==
    (output # None /\ output.fn = "ranges") =>
        LET a == input.agg
            all == output.live \o output.dead
            dead == output.dead
        IN /\ \A i \in 1 .. Len(all) :
                 a.start_time <= all[i][1] /\ all[i][2] <= a.end_time
           /\ \A p \in a.start_time .. (a.end_time - 1) :
                 Cardinality({i \in 1 .. Len(all) : all[i][1] <= p /\ p < all[i][2]}) = 1
           /\ \A i \in 1 .. Len(dead) : dead[i][1] < dead[i][2]
           /\ \A i \in 1 .. (Len(dead) - 1) : dead[i][2] <= dead[i + 1][1]

\* The ranges of an aggregate that is live at its start and at its end, with
\* a dead range in between.
C11_Witness ==
    /\ output # None
    /\ output.fn = "ranges"
    /\ input.agg.num_intervals >= 2
    /\ input.agg.interval_starts[1] = input.agg.start_time
    /\ Last(input.agg.interval_ends) = input.agg.end_time
    /\ Len(output.dead) = input.agg.num_intervals - 1

\* C12: for every valid Aggregate and every timestamp t, inside the window
\* or outside, live_at(t) is true iff some i has S[i] <= t < E[i]; it is
\* false when there is no interval.
C12_LiveAtHalfOpen ==
    (output # None /\ output.fn = "live_at") =>
        /\ output.value <=> Covered(LiveRanges(input.agg), output.test)
        /\ input.agg.num_intervals = 0 => ~output.value

\* live_at asked at the end of an interval that is not the last one.
C12_Witness ==
    /\ output # None
    /\ output.fn = "live_at"
    /\ input.agg.num_intervals >= 2
    /\ output.test = input.agg.interval_ends[1]
    /\ ~output.value

\* ------------------------------------------------------- failed assertions

\* C13: insert(t) with t < start or t >= end, t = end included, fails, and
\* leaves buffer and liveness as they were: nothing is flushed before the
\* failure, even when the buffer is full.
C13_InsertRejects ==
    [][\A time \in InsertTimes :
          (DoInsert(time) /\ (time < state.start \/ time >= state.end))
              => (op' = Panic("insert") /\ state' = state)]_vars

\* insert has failed on a full buffer, which is still there, beside
\* intervals flushed earlier.
C13_Witness ==
    /\ state # None
    /\ op = Panic("insert")
    /\ Len(state.buffer) >= cap
    /\ state.liveness # <<>>

\* C14: new(start, end, L) with start >= end or L <= 0 is rejected, so no
\* TransState with an empty window or a non-positive liveness length ever
\* exists.
C14_NewRejects ==
    state # None => (state.start < state.end /\ state.interval_len > 0)

\* C15: combine(other) with a liveness length other than that of self fails
\* before any change: the buffer of self is not flushed and its liveness is
\* as it was.
C15_CombineRejects ==
    [][\A interval_len \in Lens :
          (/\ state # None
           /\ interval_len # state.interval_len
           /\ DoCombine(New(WinStart, WinStart + ApiLen, interval_len)))
              => (op' = Panic("combine") /\ state' = state)]_vars

\* combine has failed with heartbeats still in the buffer, beside intervals
\* flushed earlier; a combine that gets past its assertion flushes first.
C15_Witness ==
    /\ state # None
    /\ op = Panic("combine")
    /\ state.buffer # <<>>
    /\ state.liveness # <<>>

\* ------------------------------------------------ the table of rollup_trans

\* The running state is none or one converted from an aggregate; the
\* incoming value is none or an aggregate.
InitTable ==
    /\ Unused
    /\ \E running \in {None} \cup {FromAgg(a) : a \in ValidAggs},
          value \in {None} \cup ValidAggs :
          input = [state |-> running, value |-> value]
    /\ output = None

\* heartbeat_rollup_trans_inner: combine panics on the assertion or on an
\* unwrap, else the state is returned.
RunRollupTrans ==
    /\ output = None
    /\ output' =
          IF /\ input.state # None
             /\ input.value # None
             /\ \/ ~CombineAssert(input.state, FromAgg(input.value))
                \/ CombinePanics(input.state, FromAgg(input.value))
          THEN [fn |-> "rollup_trans", result |-> "panic"]
          ELSE [fn |-> "rollup_trans", result |-> "ok",
                state |-> RollupTransInner(input.state, input.value)]
    /\ UNCHANGED <<state, cap, agg, seen, op, input>>

SpecTable == InitTable /\ [][RunRollupTrans]_vars

C17_OverwriteNeverShrinks ==
    (Running /\ state # None /\ state.buffer # <<>> /\ state.liveness # <<>>) =>
        LET last == Last(state.liveness)
            new_intervals == NewIntervals(state.buffer, state.interval_len)
            first_new == Head(new_intervals)
        IN (TakesOrderedPath(state.liveness, new_intervals) /\ last[2] >= first_new[1])
              => first_new[2] >= last[2]

\* --------------------------------------------- process_batch, first flush

InitSweep ==
    /\ Unused
    /\ \E buffer \in SeqsUpTo(WinTimes, MaxBeats) \ {<<>>}, interval_len \in Lens :
          input = [New(WinStart, WinStart + WinLen, interval_len)
                      EXCEPT !.buffer = buffer]
    /\ output = None

RunProcessBatch ==
    /\ output = None
    /\ output' = ProcessBatch(input)
    /\ UNCHANGED <<state, cap, agg, seen, op, input>>

SpecSweep == InitSweep /\ [][RunProcessBatch]_vars

\* C18: process_batch on an empty liveness and a non-empty buffer leaves the
\* maximal runs of the sorted buffer: two heartbeats t < t' next to each
\* other in sorted order are in the same interval iff t' <= t + L, every
\* interval is (first of its run, last of its run + L), and duplicates
\* change nothing: liveness is a function of the set of heartbeats.
C18_MaximalRuns ==
    output # None =>
        LET L == input.interval_len
            T == {input.buffer[i] : i \in 1 .. Len(input.buffer)}
            lv == output.liveness
            run(i) == {t \in T : lv[i][1] <= t /\ t <= lv[i][2] - L}
            runs(t) == {i \in 1 .. Len(lv) : t \in run(i)}
        IN /\ output.buffer = <<>>
           /\ \A t \in T : Cardinality(runs(t)) = 1
           /\ \A i \in 1 .. Len(lv) : lv[i][1] \in T /\ (lv[i][2] - L) \in T
           /\ \A i \in 1 .. (Len(lv) - 1) : lv[i][2] - L < lv[i + 1][1]
           /\ \A t \in T, u \in T :
                 (t < u /\ ~\E v \in T : t < v /\ v < u)
                    => (runs(t) = runs(u) <=> u <= t + L)

\* An unsorted buffer with a heartbeat exactly L after another, and a gap:
\* two intervals come out.
C18_Witness ==
    /\ output # None
    /\ Len(output.liveness) = 2
    /\ input.buffer[1] > input.buffer[Len(input.buffer)]
    /\ \E i \in 1 .. Len(input.buffer), j \in 1 .. Len(input.buffer) :
          input.buffer[j] = input.buffer[i] + input.interval_len

\* ------------------------------------------------------------- the buffer

\* C19: the buffer never holds more than B heartbeats in a state reached by
\* insert, process_batch and combine; an insert that succeeds leaves between
\* 1 and B of them, and flushes first exactly when B or more were there.
C19_BufferBounded ==
    [][/\ state # None => Len(state.buffer) <= cap
       /\ state' # None => Len(state'.buffer) <= cap
       /\ \A time \in InsertTimes :
             (DoInsert(time) /\ op' = Done("insert")) =>
                 /\ 1 <= Len(state'.buffer)
                 /\ Len(state'.buffer) <= cap
                 /\ Len(state.buffer) >= cap =>
                       state' = [ProcessBatch(state) EXCEPT !.buffer = <<time>>]
                 /\ Len(state.buffer) < cap =>
                       state' = [state EXCEPT !.buffer = Append(@, time)]]_vars

\* An insert has filled the buffer to the cap, after an earlier flush.
C19_Witness ==
    /\ state # None
    /\ op = Done("insert")
    /\ cap > 1
    /\ Len(state.buffer) = cap
    /\ state.liveness # <<>>

\* C20: process_batch on an empty buffer changes nothing; after any
\* process_batch the buffer is empty, so that a second one changes nothing;
\* an insert that succeeds without flushing leaves liveness as it was.
C20_FlushIdempotent ==
    [][/\ DoProcessBatch =>
             /\ state.buffer = <<>> => state' = state
             /\ state'.buffer = <<>>
             /\ ProcessBatch(state') = state'
       /\ \A time \in InsertTimes :
             (DoInsert(time) /\ op' = Done("insert") /\ Len(state.buffer) < cap)
                 => state'.liveness = state.liveness]_vars

\* process_batch has flushed into several intervals and left the buffer
\* empty.
C20_Witness ==
    /\ state # None
    /\ op = Done("process_batch")
    /\ state.buffer = <<>>
    /\ Len(state.liveness) >= 2

\* --------------------------------------------------------------- the window

\* C21: combine never changes the start, end or L of self, whatever the
\* window of the operand, and neither do insert and process_batch: the
\* window a state has is the one it was built with, for a rollup that of
\* the first aggregate.
C21_WindowKept ==
    [][state # None =>
          /\ state' # None
          /\ state'.start = state.start
          /\ state'.end = state.end
          /\ state'.interval_len = state.interval_len]_vars

\* combine has taken in an interval that starts at or after the end of the
\* window of self, from an operand with a later window.
C21_Witness ==
    /\ state # None
    /\ op = Done("combine")
    /\ Last(state.liveness)[1] >= state.end

\* ------------------------------------------- combine with nothing to union

\* C22: combine, and so rollup_trans with a running state and an incoming
\* aggregate of the same L, completes when either operand has no live
\* interval, and the liveness it leaves is that of the other operand.
C22_CombineEmptyCompletes ==
    (/\ output # None
     /\ input.state # None
     /\ input.value # None
     /\ input.state.interval_len = input.value.interval_len
     /\ (input.state.liveness = <<>> \/ input.value.num_intervals = 0)) =>
        /\ output.result = "ok"
        /\ output.state.liveness =
              IF input.state.liveness = <<>>
              THEN Zip(input.value.interval_starts, input.value.interval_ends)
              ELSE input.state.liveness

\* ------------------------------------------------------------ the durations

\* The lengths of the ranges from position i on, added up.
RECURSIVE TotalLength(_, _)
TotalLength(ranges, i) ==
    IF i > Len(ranges) THEN 0
    ELSE (ranges[i][2] - ranges[i][1]) + TotalLength(ranges, i + 1)

\* C23: for every valid Aggregate, duration_dead is the total length of the
\* ranges of dead_ranges and duration_live that of the ranges of
\* live_ranges; both are >= 0 and they add up to end - start.
C23_DurationLaw ==
    (output # None /\ output.fn = "durations") =>
        /\ output.live = TotalLength(LiveRanges(input.agg), 1)
        /\ output.dead = TotalLength(DeadRanges(input.agg), 1)
        /\ output.live >= 0
        /\ output.dead >= 0
        /\ output.live + output.dead = input.agg.end_time - input.agg.start_time

\* The durations of an aggregate with several intervals, dead at its start
\* and live at its end.
C23_Witness ==
    /\ output # None
    /\ output.fn = "durations"
    /\ input.agg.num_intervals >= 2
    /\ input.agg.interval_starts[1] > input.agg.start_time
    /\ Last(input.agg.interval_ends) = input.agg.end_time
    /\ output.dead > 0

====
